---------------------------- MODULE Spec2Model ----------------------------
(***************************************************************************)
(* Model of the Week-1 review notebook (src/Week1Review-DIY.ipynb, the     *)
(* completed copy that starts at line 534): token processing, n-gram       *)
(* featurization, bag-of-ngrams and mean-embedding matrices, and the       *)
(* top-to-bottom run of the cells.                                         *)
(*                                                                         *)
(* Text is a sequence of one-character strings, so that strip() and        *)
(* lower() are computed and not assumed.                                   *)
(***************************************************************************)
EXTENDS Integers, Sequences, FiniteSets, TLC

VARIABLES
    \* one call of featurize_post, statement by statement
    post,        \* the parsed post: a sequence of sentences, each a sequence of tokens
    si,          \* position of `for sentence in post.sents`
    ti,          \* position of `for token in sentence`
    unigrams,
    bigrams,
    last_word,
    last_token,
    fpc,         \* where the call stands
    \* one call of process_token
    pt,          \* [token, swap_person, ret, pc]
    \* one call of posts_to_matrix
    ptm,         \* [posts, vocab, X, pc]
    \* one call of construct_feature_matrix_embedding
    emb,         \* [posts, vocab, embedding_table, X_embedding_all, X, pc]
    \* one call of get_newsgroups_parsed
    news,        \* [dataset, n, raw, y, parsed, pc]
    \* one call of construct_feature_matrix
    cfm,         \* [unigrams, bigrams, unigram_vocab, bigram_vocab, X, pc]
    \* a run of the notebook, cell by cell
    corpus,      \* what fetch_20newsgroups returns: [train, test]
    nb           \* the names the cells assign, and `cell`, the cell to run next

featVars == <<post, si, ti, unigrams, bigrams, last_word, last_token, fpc>>
ptVars   == <<pt>>
ptmVars  == <<ptm>>
embVars  == <<emb>>
newsVars == <<news>>
cfmVars  == <<cfm>>
nbVars   == <<corpus, nb>>
vars     == <<featVars, ptVars, ptmVars, embVars, newsVars, cfmVars, nbVars>>

\* what a step of one call leaves alone
notFeat == <<ptVars, ptmVars, embVars, newsVars, cfmVars, nbVars>>
notPt   == <<featVars, ptmVars, embVars, newsVars, cfmVars, nbVars>>
notPtm  == <<featVars, ptVars, embVars, newsVars, cfmVars, nbVars>>
notEmb  == <<featVars, ptVars, ptmVars, newsVars, cfmVars, nbVars>>
notNews == <<featVars, ptVars, ptmVars, embVars, cfmVars, nbVars>>
notCfm  == <<featVars, ptVars, ptmVars, embVars, newsVars, nbVars>>
notNb   == <<featVars, ptVars, ptmVars, embVars, newsVars, cfmVars>>

(***************************************************************************)
(* Bounds of the model.                                                    *)
(***************************************************************************)
\* most tokens in one post handed to featurize_post
MaxTokens == 3
\* most posts in one list handed to a matrix builder
MaxPosts == 2
\* most n-grams, all posts of one list together
MaxGrams == 3
\* length of a word vector
EmbDim == 2
\* most posts fetch_20newsgroups returns for one subset
MaxRaw == 2
\* the n of get_newsgroups('train', n=500), scaled to the corpus of a run
TrainN == 2
\* most posts of the train subset in a run of the notebook
MaxTrain == 3
\* most posts of the test subset in a run of the notebook
MaxTest == 2

(***************************************************************************)
(* Python values.                                                          *)
(***************************************************************************)
\* Python's None where a word is expected; no word is a one-element
\* sequence holding a four-character string, so None equals no word.
None == <<"None">>

\* PERSON = '~~PERSON~~'
PERSON == <<"~", "~", "P", "E", "R", "S", "O", "N", "~", "~">>

\* The characters of the model are those of Latin-1: the text of the posts
\* is decoded from it, and str.lower() keeps a Latin-1 string in Latin-1.
\* str.isupper() on one character: A-Z, À-Ö, Ø-Þ
UpperChars == <<"A","B","C","D","E","F","G","H","I","J","K","L","M",
                "N","O","P","Q","R","S","T","U","V","W","X","Y","Z",
                "À","Á","Â","Ã","Ä","Å","Æ","Ç","È","É","Ê","Ë","Ì",
                "Í","Î","Ï","Ð","Ñ","Ò","Ó","Ô","Õ","Ö","Ø","Ù","Ú",
                "Û","Ü","Ý","Þ">>
\* the same letters after str.lower(), each at the index of its capital
LowerChars == <<"a","b","c","d","e","f","g","h","i","j","k","l","m",
                "n","o","p","q","r","s","t","u","v","w","x","y","z",
                "à","á","â","ã","ä","å","æ","ç","è","é","ê","ë","ì",
                "í","î","ï","ð","ñ","ò","ó","ô","õ","ö","ø","ù","ú",
                "û","ü","ý","þ">>
\* the lowercase letters that are str.lower() of no Latin-1 capital
UnpairedLowerChars == {"ª", "µ", "º", "ß", "ÿ"}
\* str.isspace() on one character: tab, line feed, vertical tab, form feed,
\* carriage return, the separators U+001C to U+001F, space, U+0085, U+00A0
WhiteChars == {"\t", "\n", "", "\f", "\r", "", "", "", "", " ", "", " "}

\* the capitals, the lowercase letters, and the capitals' lowercase letters
UpperSet == {UpperChars[k] : k \in 1..Len(UpperChars)}
LowerSet == {LowerChars[k] : k \in 1..Len(LowerChars)} \cup UnpairedLowerChars
LowerOf ==
    [c \in UpperSet |-> LowerChars[CHOOSE k \in 1..Len(UpperChars) : UpperChars[k] = c]]

IsUpperChar(c) == c \in UpperSet
IsLowerChar(c) == c \in LowerSet

\* str.lower() on one character
LowerChar(c) == IF IsUpperChar(c) THEN LowerOf[c] ELSE c

\* str.lower()
lower(s) == [k \in 1..Len(s) |-> LowerChar(s[k])]

\* str.strip(): drops the leading and the trailing whitespace
strip(s) ==
    LET keep == {k \in 1..Len(s) : s[k] \notin WhiteChars} IN
    IF keep = {} THEN <<>>
    ELSE LET lo == CHOOSE k \in keep : \A m \in keep : k <= m
             hi == CHOOSE k \in keep : \A m \in keep : m <= k
         IN  SubSeq(s, lo, hi)

\* str.isalpha(): non-empty and every character a letter
isalpha(s) == Len(s) > 0 /\ \A k \in 1..Len(s) : IsUpperChar(s[k]) \/ IsLowerChar(s[k])

\* str.startswith('V')
startswithV(s) == Len(s) > 0 /\ s[1] = "V"

(***************************************************************************)
(* spaCy tokens: the attributes the notebook reads.  string is the text    *)
(* with its trailing whitespace, is_alpha is decided by the text alone.    *)
(***************************************************************************)
Token(string, lemma_, pos_, ent_type_, is_stop) ==
    [string    |-> string,
     lemma_    |-> lemma_,
     pos_      |-> pos_,
     ent_type_ |-> ent_type_,
     is_stop   |-> is_stop,
     is_alpha  |-> isalpha(strip(string))]

\* last_token = None
NoToken ==
    [string |-> None, lemma_ |-> None, pos_ |-> <<>>, ent_type_ |-> "",
     is_stop |-> FALSE, is_alpha |-> FALSE]

NOUN  == <<"N","O","U","N">>
VERB  == <<"V","E","R","B">>
DET   == <<"D","E","T">>
NUM   == <<"N","U","M">>
PROPN == <<"P","R","O","P","N">>

tCat  == Token(<<"C","a","t"," ">>, <<"c","a","t">>, NOUN, "", FALSE)
tRan  == Token(<<"R","a","n"," ">>, <<"r","u","n">>, VERB, "", FALSE)
tThe  == Token(<<"T","h","e"," ">>, <<"t","h","e">>, DET, "", TRUE)
tNum  == Token(<<"4","2"," ">>, <<"4","2">>, NUM, "", FALSE)
tBob  == Token(<<"B","o","b"," ">>, <<"b","o","b">>, PROPN, "PERSON", FALSE)
tJr   == Token(<<"J",".","\n">>, <<"j",".">>, PROPN, "PERSON", FALSE)
tRose == Token(<<"R","o","s","e"," ">>, <<"r","i","s","e">>, VERB, "PERSON", FALSE)

\* the tokens the posts of the featurization runs are made of
FeatTokens == {tCat, tRan, tThe, tNum, tBob, tJr, tRose}

(***************************************************************************)
(* process_token                                                           *)
(***************************************************************************)
\* variant: the is_alpha filter is left out
process_token_no_filter(token, swap_person) ==
    IF swap_person /\ token.ent_type_ = "PERSON" THEN PERSON
    ELSE LET s == IF startswithV(token.pos_) THEN token.lemma_ ELSE token.string
         IN  lower(strip(s))

\* variant: the is_alpha filter runs before the person swap
process_token_filter_first(token, swap_person) ==
    IF ~token.is_alpha THEN None
    ELSE IF swap_person /\ token.ent_type_ = "PERSON" THEN PERSON
    ELSE LET s == IF startswithV(token.pos_) THEN token.lemma_ ELSE token.string
         IN  lower(strip(s))

\* variant: swap_person is ignored, a person's name is never replaced
process_token_never_swaps(token, swap_person) ==
    IF ~token.is_alpha THEN None
    ELSE LET s == IF startswithV(token.pos_) THEN token.lemma_ ELSE token.string
         IN  lower(strip(s))

process_token(token, swap_person) ==
    \* Replace with person tag
    IF swap_person /\ token.ent_type_ = "PERSON" THEN PERSON
    \* Run filter
    ELSE IF ~token.is_alpha THEN None
    \* Get lemma if verb, lowercase
    ELSE LET s == IF startswithV(token.pos_) THEN token.lemma_ ELSE token.string
         IN  lower(strip(s))


(***************************************************************************)
(* featurize_post                                                          *)
(***************************************************************************)
\* variant: the unigram is added although the token is a stopword
TokenBody_unigram_of_stopword(st, token) ==
    LET word      == process_token(token, FALSE)
        word_swap == process_token(token, TRUE)
    IN  [unigrams   |-> IF word # None
                        THEN Append(st.unigrams, word)
                        ELSE st.unigrams,
         bigrams    |-> IF word_swap # None /\ st.last_word # None
                           /\ (~token.is_stop \/ ~st.last_token.is_stop)
                        THEN Append(st.bigrams, <<st.last_word, word_swap>>)
                        ELSE st.bigrams,
         last_word  |-> word_swap,
         last_token |-> token]

\* variant: the bigram is added whether the tokens are stopwords or not
TokenBody_bigram_of_stopwords(st, token) ==
    LET word      == process_token(token, FALSE)
        word_swap == process_token(token, TRUE)
    IN  [unigrams   |-> IF word # None /\ ~token.is_stop
                        THEN Append(st.unigrams, word)
                        ELSE st.unigrams,
         bigrams    |-> IF word_swap # None /\ st.last_word # None
                        THEN Append(st.bigrams, <<st.last_word, word_swap>>)
                        ELSE st.bigrams,
         last_word  |-> word_swap,
         last_token |-> token]

\* the body of `for token in sentence`, on the locals of featurize_post
TokenBody(st, token) ==
    LET \* First add unigram if not a stopword
        word      == process_token(token, FALSE)
        \* Then add preceeding bigram if both aren't stopwords
        word_swap == process_token(token, TRUE)
    IN  [unigrams   |-> IF word # None /\ ~token.is_stop
                        THEN Append(st.unigrams, word)
                        ELSE st.unigrams,
         bigrams    |-> IF word_swap # None /\ st.last_word # None
                           /\ (~token.is_stop \/ ~st.last_token.is_stop)
                        THEN Append(st.bigrams, <<st.last_word, word_swap>>)
                        ELSE st.bigrams,
         last_word  |-> word_swap,
         last_token |-> token]

\* the posts of at most n tokens: any number of sentences, none of them empty
RECURSIVE PostsOfLen(_)
PostsOfLen(n) ==
    IF n = 0 THEN {<<>>}
    ELSE UNION {{<<s>> \o p : s \in [1..k -> FeatTokens], p \in PostsOfLen(n - k)} : k \in 1..n}

Posts == UNION {PostsOfLen(n) : n \in 0..MaxTokens}

IdleFeat ==
    /\ post = <<>> /\ si = 0 /\ ti = 0
    /\ unigrams = <<>> /\ bigrams = <<>>
    /\ last_word = None /\ last_token = NoToken
    /\ fpc = "idle"

IdlePt == pt = [pc |-> "idle"]

IdlePtm == ptm = [pc |-> "idle"]

IdleEmb == emb = [pc |-> "idle"]

IdleNews == news = [pc |-> "idle"]

IdleCfm == cfm = [pc |-> "idle"]

IdleNb == corpus = <<>> /\ nb = [cell |-> 0]

\* unigrams, bigrams = [], []
FeatEntry ==
    /\ post \in Posts
    /\ si = 0 /\ ti = 0
    /\ unigrams = <<>> /\ bigrams = <<>>
    /\ last_word = None /\ last_token = NoToken
    /\ fpc = "for_sentence"

\* variant: last_word and last_token survive the end of a sentence
NextSentence_keeps_last ==
    /\ fpc = "for_sentence" /\ si < Len(post)
    /\ si' = si + 1 /\ ti' = 0
    /\ fpc' = "for_token"
    /\ UNCHANGED <<post, unigrams, bigrams, last_word, last_token, notFeat>>

\* for sentence in post.sents: last_word, last_token = None, None
NextSentence ==
    /\ fpc = "for_sentence" /\ si < Len(post)
    /\ si' = si + 1 /\ ti' = 0
    /\ last_word' = None /\ last_token' = NoToken
    /\ fpc' = "for_token"
    /\ UNCHANGED <<post, unigrams, bigrams, notFeat>>

\* for token in sentence: the body, once
TokenStep ==
    /\ fpc = "for_token" /\ ti < Len(post[si])
    /\ LET st == TokenBody([unigrams |-> unigrams, bigrams |-> bigrams,
                            last_word |-> last_word, last_token |-> last_token],
                           post[si][ti + 1])
       IN  /\ unigrams' = st.unigrams
           /\ bigrams' = st.bigrams
           /\ last_word' = st.last_word
           /\ last_token' = st.last_token
    /\ ti' = ti + 1
    /\ UNCHANGED <<post, si, fpc, notFeat>>

\* the sentence has no token left
EndSentence ==
    /\ fpc = "for_token" /\ ti = Len(post[si])
    /\ fpc' = "for_sentence"
    /\ UNCHANGED <<post, si, ti, unigrams, bigrams, last_word, last_token, notFeat>>

\* return unigrams, bigrams
ReturnFeat ==
    /\ fpc = "for_sentence" /\ si = Len(post)
    /\ fpc' = "done"
    /\ UNCHANGED <<post, si, ti, unigrams, bigrams, last_word, last_token, notFeat>>

NextFeat == NextSentence \/ TokenStep \/ EndSentence \/ ReturnFeat

InitFeat == FeatEntry /\ IdlePt /\ IdlePtm /\ IdleEmb /\ IdleNews /\ IdleCfm /\ IdleNb

SpecFeat == InitFeat /\ [][NextFeat]_vars

\* featurize_post as a function of the post: the same loops, folded
RECURSIVE FoldSentence(_, _, _)
FoldSentence(st, sentence, k) ==
    IF k > Len(sentence) THEN st
    ELSE FoldSentence(TokenBody(st, sentence[k]), sentence, k + 1)

RECURSIVE FoldPost(_, _, _)
FoldPost(st, p, k) ==
    IF k > Len(p) THEN st
    ELSE FoldPost(FoldSentence([st EXCEPT !.last_word = None, !.last_token = NoToken],
                               p[k], 1),
                  p, k + 1)

featurize_post(p) ==
    LET st == FoldPost([unigrams |-> <<>>, bigrams |-> <<>>,
                        last_word |-> None, last_token |-> NoToken], p, 1)
    IN  <<st.unigrams, st.bigrams>>


(***************************************************************************)
(* Properties of featurize_post, checked under SpecFeat                    *)
(***************************************************************************)
Last(s) == s[Len(s)]

RECURSIVE Flatten(_)
Flatten(ss) == IF ss = <<>> THEN <<>> ELSE Head(ss) \o Flatten(Tail(ss))

\* a step of SpecFeat that runs the loop body on CurToken
BodyRuns == fpc = "for_token" /\ ti < Len(post[si]) /\ ti' = ti + 1
CurToken == post[si][ti + 1]
\* the token before CurToken in the same sentence, when ti >= 1
PrevToken == post[si][ti]

\* C1: the unigrams returned are, in token order, process_token(token, False)
\* of exactly the tokens that are alphabetic and no stopword; None is never
\* a unigram.
C1_UnigramsAreKeptTokens ==
    /\ \A k \in 1..Len(unigrams) : unigrams[k] # None
    /\ fpc = "done" =>
         LET kept == SelectSeq(Flatten(post), LAMBDA t : t.is_alpha /\ ~t.is_stop)
         IN  unigrams = [k \in 1..Len(kept) |-> process_token(kept[k], FALSE)]

\* a finished post with a stopword, a non-alphabetic token and a unigram
C1_Witness ==
    /\ fpc = "done"
    /\ \E k \in 1..Len(Flatten(post)) : Flatten(post)[k].is_stop
    /\ \E k \in 1..Len(Flatten(post)) : ~Flatten(post)[k].is_alpha
    /\ Len(unigrams) = 1

\* C2: a bigram is only ever added for the token just read and the token
\* right before it in the same sentence, both processed to a word (neither
\* discarded), and it is the pair (processed previous, processed current).
C2_BigramsAreAdjacent ==
    [][bigrams' # bigrams =>
         /\ BodyRuns
         /\ ti >= 1
         /\ process_token(PrevToken, TRUE) # None
         /\ process_token(CurToken, TRUE) # None
         /\ bigrams' = Append(bigrams, <<process_token(PrevToken, TRUE),
                                         process_token(CurToken, TRUE)>>)]_vars

\* a finished post of two sentences, every token processed to a word, whose
\* only bigram comes from the two tokens of the second sentence
C2_Witness ==
    /\ fpc = "done"
    /\ Len(post) = 2 /\ Len(post[1]) = 1 /\ Len(post[2]) = 2
    /\ \A k \in 1..3 : process_token(Flatten(post)[k], TRUE) # None
    /\ \A k \in 1..3 : ~Flatten(post)[k].is_stop
    /\ Len(bigrams) = 1

\* C3 as stated: in a bigram a component coming from a PERSON token is the
\* placeholder, in either position; a unigram is never the placeholder, and
\* the unigram of a PERSON token is its own stripped, lowercased string.
C3_Original ==
    [][BodyRuns =>
         /\ (bigrams' # bigrams /\ CurToken.ent_type_ = "PERSON")
               => Last(bigrams')[2] = PERSON
         /\ (bigrams' # bigrams /\ ti >= 1 /\ PrevToken.ent_type_ = "PERSON")
               => Last(bigrams')[1] = PERSON
         /\ unigrams' # unigrams => Last(unigrams') # PERSON
         /\ (unigrams' # unigrams /\ CurToken.ent_type_ = "PERSON")
               => Last(unigrams') = lower(strip(CurToken.string))]_vars

\* C3 as amended: the same, except that the unigram of a PERSON token is its
\* stripped, lowercased lemma when the token is tagged as a verb, and its
\* stripped, lowercased string otherwise.
C3_PersonPlaceholder ==
    [][BodyRuns =>
         /\ (bigrams' # bigrams /\ CurToken.ent_type_ = "PERSON")
               => Last(bigrams')[2] = PERSON
         /\ (bigrams' # bigrams /\ ti >= 1 /\ PrevToken.ent_type_ = "PERSON")
               => Last(bigrams')[1] = PERSON
         /\ unigrams' # unigrams => Last(unigrams') # PERSON
         /\ (unigrams' # unigrams /\ CurToken.ent_type_ = "PERSON")
               => Last(unigrams') =
                     IF startswithV(CurToken.pos_)
                     THEN lower(strip(CurToken.lemma_))
                     ELSE lower(strip(CurToken.string))]_vars

\* a finished post in which a PERSON token stands second in one bigram and
\* first in the next, and a verb-tagged PERSON token gave its lemma as unigram
C3_Witness ==
    /\ fpc = "done"
    /\ Len(bigrams) = 2
    /\ bigrams[1][2] = PERSON /\ bigrams[2][1] = PERSON
    /\ bigrams[1][1] # PERSON /\ bigrams[2][2] # PERSON
    /\ \E k \in 1..Len(unigrams) : unigrams[k] = lower(strip(tRose.lemma_))

\* C4 as stated: a token whose is_alpha is False adds no unigram and takes
\* part in no bigram, neither as the current nor as the previous token.
C4_Original ==
    [][BodyRuns =>
         /\ ~CurToken.is_alpha => (unigrams' = unigrams /\ bigrams' = bigrams)
         /\ (ti >= 1 /\ ~PrevToken.is_alpha) => bigrams' = bigrams]_vars

\* C4 as amended: a token whose is_alpha is False adds no unigram; it takes
\* part in a bigram only when its entity type is PERSON, and its component
\* of that bigram is then the placeholder.
C4_NonAlphaFiltered ==
    [][BodyRuns =>
         /\ ~CurToken.is_alpha =>
               /\ unigrams' = unigrams
               /\ bigrams' # bigrams =>
                     (CurToken.ent_type_ = "PERSON" /\ Last(bigrams')[2] = PERSON)
         /\ (ti >= 1 /\ ~PrevToken.is_alpha /\ bigrams' # bigrams) =>
               (PrevToken.ent_type_ = "PERSON" /\ Last(bigrams')[1] = PERSON)]_vars

\* a finished post of one sentence: a word, a non-alphabetic PERSON token,
\* a number.  One unigram, and one bigram that ends in the placeholder.
C4_Witness ==
    /\ fpc = "done"
    /\ Len(post) = 1 /\ Len(post[1]) = 3
    /\ post[1][1].is_alpha /\ ~post[1][1].is_stop /\ post[1][1].ent_type_ # "PERSON"
    /\ ~post[1][2].is_alpha /\ post[1][2].ent_type_ = "PERSON"
    /\ ~post[1][3].is_alpha /\ post[1][3].ent_type_ # "PERSON"
    /\ Len(unigrams) = 1
    /\ Len(bigrams) = 1 /\ bigrams[1][2] = PERSON

\* C13 as stated: the loop body adds a bigram only when neither the previous
\* token nor the current token is a stopword.
C13_Original ==
    [][BodyRuns =>
         (bigrams' # bigrams =>
             /\ ti >= 1
             /\ ~PrevToken.is_stop /\ ~CurToken.is_stop)]_vars

\* C13 as amended: the loop body adds the bigram (previous word, current
\* word) exactly when the current token has a previous token in its
\* sentence, process_token(., True) is not None for both, and the two tokens
\* are not both stopwords; a bigram of one stopword and one other word is
\* added.
C13_BigramUnlessBothStop ==
    [][BodyRuns =>
         /\ bigrams' # bigrams <=>
               /\ ti >= 1
               /\ process_token(PrevToken, TRUE) # None
               /\ process_token(CurToken, TRUE) # None
               /\ ~(PrevToken.is_stop /\ CurToken.is_stop)
         /\ bigrams' # bigrams =>
               bigrams' = Append(bigrams, <<process_token(PrevToken, TRUE),
                                            process_token(CurToken, TRUE)>>)]_vars

\* a returned call on one sentence of two stopwords and a third word: the
\* two stopwords give no bigram, the second stopword and the word give one
C13_Witness ==
    /\ fpc = "done"
    /\ Len(post) = 1 /\ Len(post[1]) = 3
    /\ post[1][1].is_stop /\ post[1][2].is_stop /\ ~post[1][3].is_stop
    /\ \A k \in 1..3 : process_token(post[1][k], TRUE) # None
    /\ bigrams = <<<<process_token(post[1][2], TRUE), process_token(post[1][3], TRUE)>>>>

\* the tokens of the first k sentences of p
RECURSIVE TokensUpTo(_, _)
TokensUpTo(p, k) == IF k = 0 THEN 0 ELSE Len(p[k]) + TokensUpTo(p, k - 1)

\* the pairs of neighbouring tokens in the first k sentences of p
RECURSIVE PairsUpTo(_, _)
PairsUpTo(p, k) == IF k = 0 THEN 0 ELSE (Len(p[k]) - 1) + PairsUpTo(p, k - 1)

\* the tokens the loops have examined so far
Examined == IF si = 0 THEN 0 ELSE TokensUpTo(post, si - 1) + ti

\* the pairs of neighbouring tokens among them
PairsExamined ==
    IF si = 0 THEN 0
    ELSE PairsUpTo(post, si - 1) + (IF ti >= 1 THEN ti - 1 ELSE 0)

\* the steps the call has left: one per token, two per sentence, and the
\* return
StepsLeft ==
    IF fpc = "done" THEN 0
    ELSE 1 + 2 * (Len(post) - si)
           + (TokensUpTo(post, Len(post)) - TokensUpTo(post, si))
           + (IF fpc = "for_token" THEN 1 + Len(post[si]) - ti ELSE 0)

\* l2 is l1, or l1 with one element more
GrowsByAtMostOne(l1, l2) ==
    \/ l2 = l1
    \/ Len(l2) = Len(l1) + 1 /\ SubSeq(l2, 1, Len(l1)) = l1

\* C14: featurize_post is one pass that ends.  Every step of the call
\* brings the return one step nearer, and a call that has not returned can
\* take a step.  The loops examine the tokens one by one in document order:
\* the token position moves by one inside a sentence, and a sentence starts
\* only when the one before it is exhausted.  The loop body adds at most one
\* unigram and at most one bigram, no bigram for the first token of a
\* sentence, and nothing else adds an n-gram; so the unigrams are at most as
\* many as the tokens examined and the bigrams at most k - 1 for each
\* sentence of k tokens.
C14_SinglePass ==
    [][/\ StepsLeft' >= 0 /\ StepsLeft' < StepsLeft
       /\ StepsLeft = 0 <=> fpc = "done"
       /\ (fpc' = "done" \/ (ENABLED NextFeat)')
       /\ post' = post
       /\ Examined' \in {Examined, Examined + 1}
       /\ Examined' = Examined + 1 <=> BodyRuns
       /\ si' # si => (si' = si + 1 /\ ti' = 0 /\ (si >= 1 => ti = Len(post[si])))
       /\ fpc' = "done" => Examined' = TokensUpTo(post, Len(post))
       /\ GrowsByAtMostOne(unigrams, unigrams')
       /\ GrowsByAtMostOne(bigrams, bigrams')
       /\ ~BodyRuns => (unigrams' = unigrams /\ bigrams' = bigrams)
       /\ (BodyRuns /\ ti = 0) => bigrams' = bigrams
       /\ Len(unigrams') <= Examined'
       /\ Len(bigrams') <= PairsExamined'
       /\ fpc' = "done" =>
             /\ Len(unigrams') <= TokensUpTo(post, Len(post))
             /\ Len(bigrams') <= PairsUpTo(post, Len(post))]_vars

\* a returned call on a sentence of one token and a sentence of two: every
\* token gave a unigram, the first sentence no bigram, the second one
C14_Witness ==
    /\ fpc = "done"
    /\ Len(post) = 2 /\ Len(post[1]) = 1 /\ Len(post[2]) = 2
    /\ Len(unigrams) = 3
    /\ Len(bigrams) = 1
    /\ bigrams[1] = <<process_token(post[2][1], TRUE), process_token(post[2][2], TRUE)>>
    /\ StepsLeft = 0


(***************************************************************************)
(* One call of process_token on any token                                  *)
(***************************************************************************)
\* (token.string, token.lemma_) of the tokens process_token is called on
PtTexts ==
    {<<tCat.string, tCat.lemma_>>,
     <<tRan.string, tRan.lemma_>>,
     <<tRose.string, tRose.lemma_>>,
     <<tNum.string, tNum.lemma_>>,
     <<tJr.string, tJr.lemma_>>,
     \* a lemma that keeps its capital and its whitespace
     <<<<"G","o","t"," ">>, <<"G","e","t"," ">>>>,
     \* a whitespace token
     <<<<"\n","\n">>, <<"\n","\n">>>>,
     \* capitals outside A-Z, and a carriage return before the line feed
     <<<<"É","C","O","L","E"," ">>, <<"É","c","o","l","e">>>>,
     <<<<"S","t","r","a","ß","e","\r","\n">>, <<"S","t","r","a","ß","e","\r">>>>}

PtTokens ==
    {Token(tx[1], tx[2], pos, ent, stop) :
        tx \in PtTexts, pos \in {NOUN, VERB, PROPN},
        ent \in {"", "PERSON", "ORG"}, stop \in BOOLEAN}

PtEntry ==
    pt \in {[token |-> t, swap_person |-> sw, ret |-> None, pc |-> "call"] :
               t \in PtTokens, sw \in BOOLEAN}

\* process_token(token, swap_person) runs and returns
PtCall ==
    /\ pt.pc = "call"
    /\ pt' = [pt EXCEPT !.ret = process_token(pt.token, pt.swap_person),
                        !.pc = "done"]
    /\ UNCHANGED notPt

NextPt == PtCall

InitPt == PtEntry /\ IdleFeat /\ IdlePtm /\ IdleEmb /\ IdleNews /\ IdleCfm /\ IdleNb

SpecPt == InitPt /\ [][NextPt]_vars

\* C5: process_token returns PERSON when swap_person is set and the entity
\* type is PERSON; else None when is_alpha is False; else the stripped,
\* lowercased lemma when the tag starts with V; else the stripped, lowercased
\* string.  None is returned in no other case, and a word that is returned
\* has no capital letter and no whitespace at either end.
C5_ProcessTokenCases ==
    pt.pc = "done" =>
        LET t == pt.token
            isPerson == pt.swap_person /\ t.ent_type_ = "PERSON" IN
        /\ isPerson => pt.ret = PERSON
        /\ (~isPerson /\ ~t.is_alpha) => pt.ret = None
        /\ (~isPerson /\ t.is_alpha /\ t.pos_[1] = "V")
              => pt.ret = lower(strip(t.lemma_))
        /\ (~isPerson /\ t.is_alpha /\ t.pos_[1] # "V")
              => pt.ret = lower(strip(t.string))
        /\ pt.ret = None => (~isPerson /\ ~t.is_alpha)
        /\ (pt.ret # None /\ pt.ret # PERSON) =>
              /\ \A k \in 1..Len(pt.ret) : ~IsUpperChar(pt.ret[k])
              /\ Len(pt.ret) > 0
              /\ pt.ret[1] \notin WhiteChars
              /\ pt.ret[Len(pt.ret)] \notin WhiteChars

\* a finished call on a non-alphabetic PERSON token with swap_person set:
\* the first case wins over the second
C5_Witness ==
    /\ pt.pc = "done"
    /\ pt.swap_person /\ pt.token.ent_type_ = "PERSON" /\ ~pt.token.is_alpha
    /\ pt.ret = PERSON


(***************************************************************************)
(* NumPy matrices: the shape and the cells, rows and columns from 0        *)
(***************************************************************************)
\* np.zeros((n, m))
zeros(n, m) ==
    [shape |-> <<n, m>>,
     data  |-> [c \in (0..(n - 1)) \X (0..(m - 1)) |-> 0]]

\* the value of X before the call has returned
NoMatrix == [shape |-> <<0, 0>>, data |-> <<>>]

(***************************************************************************)
(* posts_to_matrix                                                         *)
(***************************************************************************)
\* Counter(post).items(): each n-gram with its count, in the order of the
\* first occurrences; the counts grow one occurrence at a time
RECURSIVE CounterItems(_, _, _)
CounterItems(items, p, k) ==
    IF k > Len(p) THEN items
    ELSE LET at == {m \in 1..Len(items) : items[m][1] = p[k]} IN
         IF at = {}
         THEN CounterItems(Append(items, <<p[k], 1>>), p, k + 1)
         ELSE LET m == CHOOSE m \in at : TRUE IN
              CounterItems([items EXCEPT ![m] = <<items[m][1], items[m][2] + 1>>],
                           p, k + 1)

Counter(p) == CounterItems(<<>>, p, 1)

\* X[i, idx] = cts, one index after the other
RECURSIVE AssignRow(_, _, _, _, _)
AssignRow(X, i, idx, cts, k) ==
    IF k > Len(idx) THEN X
    ELSE AssignRow([X EXCEPT !.data[<<i, idx[k]>>] = cts[k]], i, idx, cts, k + 1)

\* variant: the cell records that the n-gram occurs, not how often
PostRow_presence(X, posts, vocab, i) ==
    LET post_filtered == SelectSeq(Counter(posts[i + 1]),
                                   LAMBDA it : it[1] \in DOMAIN vocab)
    IN  IF Len(post_filtered) > 0
        THEN AssignRow(X, i,
                       [k \in 1..Len(post_filtered) |-> vocab[post_filtered[k][1]]],
                       [k \in 1..Len(post_filtered) |-> 1], 1)
        ELSE X

\* the body of `for i, post in enumerate(posts)`; post i is posts[i + 1]
PostRow(X, posts, vocab, i) ==
    LET \* Get counts of ngrams in post that are also in vocab
        post_filtered == SelectSeq(Counter(posts[i + 1]),
                                   LAMBDA it : it[1] \in DOMAIN vocab)
    IN  IF Len(post_filtered) > 0
        THEN LET keys == [k \in 1..Len(post_filtered) |-> post_filtered[k][1]]
                 cts  == [k \in 1..Len(post_filtered) |-> post_filtered[k][2]]
             \* Insert counts into row using vocabulary index
             IN  AssignRow(X, i, [k \in 1..Len(keys) |-> vocab[keys[k]]], cts, 1)
        ELSE X

RECURSIVE PostRows(_, _, _, _)
PostRows(X, posts, vocab, i) ==
    IF i >= Len(posts) THEN X
    ELSE PostRows(PostRow(X, posts, vocab, i), posts, vocab, i + 1)

posts_to_matrix(posts, vocab) ==
    PostRows(zeros(Len(posts), Cardinality(DOMAIN vocab)), posts, vocab, 0)

(***************************************************************************)
(* The inputs of a matrix builder                                          *)
(***************************************************************************)
gCat  == lower(strip(tCat.string))
gRun  == lower(strip(tRan.lemma_))
gBob  == lower(strip(tBob.string))

\* the unigrams the posts of a matrix are made of
Grams == {gCat, gRun, gBob}

\* {gram: i for i, gram in enumerate(grams)}
Enumerate(grams) ==
    [g \in {grams[k] : k \in 1..Len(grams)} |->
        (CHOOSE k \in 1..Len(grams) :
            grams[k] = g /\ \A m \in (k + 1)..Len(grams) : grams[m] # g) - 1]

\* list(set(...)): the lists without a repetition
GramLists ==
    {l \in UNION {[1..k -> Grams] : k \in 0..Cardinality(Grams)} :
        \A a, b \in 1..Len(l) : a # b => l[a] # l[b]}

Vocabs == {Enumerate(l) : l \in GramLists}

\* the lists of n posts that hold at most b n-grams together
RECURSIVE PostLists(_, _)
PostLists(n, b) ==
    IF n = 0 THEN {<<>>}
    ELSE UNION {{<<p>> \o rest : p \in [1..k -> Grams], rest \in PostLists(n - 1, b - k)} :
                  k \in 0..b}

GramPosts == UNION {PostLists(n, MaxGrams) : n \in 0..MaxPosts}

PtmEntry ==
    ptm \in {[posts |-> ps, vocab |-> v, X |-> NoMatrix, pc |-> "call"] :
                ps \in GramPosts, v \in Vocabs}

\* posts_to_matrix(posts, vocab) runs and returns X
PtmCall ==
    /\ ptm.pc = "call"
    /\ ptm' = [ptm EXCEPT !.X = posts_to_matrix(ptm.posts, ptm.vocab), !.pc = "done"]
    /\ UNCHANGED notPtm

NextPtm == PtmCall

InitPtm == PtmEntry /\ IdleFeat /\ IdlePt /\ IdleEmb /\ IdleNews /\ IdleCfm /\ IdleNb

SpecPtm == InitPtm /\ [][NextPtm]_vars

\* the number of occurrences of g in p
Occurrences(p, g) == Cardinality({k \in 1..Len(p) : p[k] = g})

\* C6: for a vocab that maps its n-grams one-to-one onto 0..len(vocab)-1,
\* posts_to_matrix returns len(posts) rows and len(vocab) columns, the cell
\* [i, vocab[g]] holds the number of occurrences of g in post i for every g of
\* the vocab, and every other cell holds 0.
C6_MatrixCountsOccurrences ==
    (/\ ptm.pc = "done"
     /\ \A g, h \in DOMAIN ptm.vocab : ptm.vocab[g] = ptm.vocab[h] => g = h
     /\ {ptm.vocab[g] : g \in DOMAIN ptm.vocab} = 0..(Cardinality(DOMAIN ptm.vocab) - 1))
    =>
        LET n == Len(ptm.posts)
            m == Cardinality(DOMAIN ptm.vocab) IN
        /\ ptm.X.shape = <<n, m>>
        /\ DOMAIN ptm.X.data = (0..(n - 1)) \X (0..(m - 1))
        /\ \A i \in 0..(n - 1) :
              /\ \A g \in DOMAIN ptm.vocab :
                    ptm.X.data[<<i, ptm.vocab[g]>>] = Occurrences(ptm.posts[i + 1], g)
              /\ \A j \in 0..(m - 1) :
                    (\A g \in DOMAIN ptm.vocab : ptm.vocab[g] # j)
                       => ptm.X.data[<<i, j>>] = 0

\* a finished call on two posts: an n-gram of the vocab twice in the second
\* post, an n-gram outside the vocab, and a column that stays 0
C6_Witness ==
    /\ ptm.pc = "done"
    /\ Len(ptm.posts) = 2
    /\ Cardinality(DOMAIN ptm.vocab) = 2
    /\ \E g \in DOMAIN ptm.vocab :
          /\ Occurrences(ptm.posts[2], g) = 2
          /\ ptm.X.data[<<1, ptm.vocab[g]>>] = 2
          /\ ptm.X.data[<<0, ptm.vocab[g]>>] = 0
    /\ \E k \in 1..Len(ptm.posts[2]) : ptm.posts[2][k] \notin DOMAIN ptm.vocab
    /\ \E j \in 0..1 : ptm.X.data[<<1, j>>] = 0


(***************************************************************************)
(* Word vectors and the embedding table                                    *)
(***************************************************************************)
\* nlp(word).vector: a fixed vector of EmbDim numbers for every word
WordVector(g) ==
    LET no == IF g = gCat THEN 1 ELSE IF g = gRun THEN 2 ELSE 4
    IN  [j \in 0..(EmbDim - 1) |-> IF j = 0 THEN no ELSE no * no + j]

\* np.vstack(rows), every row a vector of d numbers
vstack(rows, d) ==
    [shape |-> <<Len(rows), d>>,
     data  |-> [c \in (0..(Len(rows) - 1)) \X (0..(d - 1)) |-> rows[c[1] + 1][c[2]]]]

\* U = np.vstack([nlp(word).vector for word in all_unigrams])
EmbeddingTable(all_unigrams) ==
    vstack([k \in 1..Len(all_unigrams) |-> WordVector(all_unigrams[k])], EmbDim)

(***************************************************************************)
(* Numbers that np.mean returns: num / den in lowest terms; 0 / 0 is nan   *)
(***************************************************************************)
RECURSIVE GCD(_, _)
GCD(a, b) == IF b = 0 THEN a ELSE GCD(b, a % b)

NaN == <<0, 0>>

Ratio(a, b) ==
    IF b = 0 THEN NaN
    ELSE LET g == GCD(a, b) IN <<a \div g, b \div g>>

RECURSIVE ColumnSum(_, _, _)
ColumnSum(M, j, r) ==
    IF r >= M.shape[1] THEN 0
    ELSE M.data[<<r, j>>] + ColumnSum(M, j, r + 1)

\* np.mean(X_post, axis=0)
mean_axis0(M) ==
    [j \in 0..(M.shape[2] - 1) |-> Ratio(ColumnSum(M, j, 0), M.shape[1])]

(***************************************************************************)
(* posts_to_embedding_matrix, construct_feature_matrix_embedding           *)
(***************************************************************************)
\* embedding_table[post_filtered, :]
TakeRows(embedding_table, post_filtered) ==
    [shape |-> <<Len(post_filtered), embedding_table.shape[2]>>,
     data  |-> [c \in (0..(Len(post_filtered) - 1)) \X (0..(embedding_table.shape[2] - 1))
                  |-> embedding_table.data[<<post_filtered[c[1] + 1], c[2]>>]]]

\* variant: a post without a word of the vocabulary gets a matrix of no rows
PostEmbedding_no_fallback(p, vocab, embedding_table) ==
    LET words == SelectSeq(p, LAMBDA word : word \in DOMAIN vocab)
        post_filtered == [k \in 1..Len(words) |-> vocab[words[k]]]
    IN  TakeRows(embedding_table, post_filtered)

\* variant: a word is looked up once, however often the post holds it
PostEmbedding_once(p, vocab, embedding_table) ==
    LET words == SelectSeq(p, LAMBDA word : word \in DOMAIN vocab)
        firsts == SelectSeq([k \in 1..Len(words) |-> k],
                            LAMBDA k : \A m \in 1..(k - 1) : words[m] # words[k])
        post_filtered == [k \in 1..Len(firsts) |-> vocab[words[firsts[k]]]]
    IN  IF Len(post_filtered) = 0
        THEN zeros(1, embedding_table.shape[2])
        ELSE TakeRows(embedding_table, post_filtered)

\* the body of `for post in posts`: the matrix appended to X
PostEmbedding(p, vocab, embedding_table) ==
    LET words == SelectSeq(p, LAMBDA word : word \in DOMAIN vocab)
        post_filtered == [k \in 1..Len(words) |-> vocab[words[k]]]
    IN  IF Len(post_filtered) = 0
        THEN zeros(1, embedding_table.shape[2])
        ELSE TakeRows(embedding_table, post_filtered)

RECURSIVE AppendEmbeddings(_, _, _, _, _)
AppendEmbeddings(X, posts, vocab, embedding_table, k) ==
    IF k > Len(posts) THEN X
    ELSE AppendEmbeddings(Append(X, PostEmbedding(posts[k], vocab, embedding_table)),
                          posts, vocab, embedding_table, k + 1)

posts_to_embedding_matrix(posts, vocab, embedding_table) ==
    AppendEmbeddings(<<>>, posts, vocab, embedding_table, 1)

\* np.vstack([np.mean(X_post, axis=0) for X_post in X_embedding_all])
MeanRows(X_embedding_all, d) ==
    vstack([k \in 1..Len(X_embedding_all) |-> mean_axis0(X_embedding_all[k])], d)

construct_feature_matrix_embedding(posts, vocab, embedding_table) ==
    MeanRows(posts_to_embedding_matrix(posts, vocab, embedding_table),
             embedding_table.shape[2])

\* the lists of one post or more (np.vstack refuses an empty list), with a
\* vocabulary and the embedding table of the same words
EmbEntry ==
    emb \in {[posts |-> ps, vocab |-> Enumerate(l),
              embedding_table |-> EmbeddingTable(l),
              X_embedding_all |-> <<>>, X |-> NoMatrix, pc |-> "call"] :
                ps \in UNION {PostLists(n, MaxGrams) : n \in 1..MaxPosts},
                l \in GramLists}

\* X_embedding_all = posts_to_embedding_matrix(posts, vocab, embedding_table)
EmbAll ==
    /\ emb.pc = "call"
    /\ emb' = [emb EXCEPT
                 !.X_embedding_all =
                     posts_to_embedding_matrix(emb.posts, emb.vocab, emb.embedding_table),
                 !.pc = "mean"]
    /\ UNCHANGED notEmb

\* return np.vstack([np.mean(X_post, axis=0) for X_post in X_embedding_all])
EmbMean ==
    /\ emb.pc = "mean"
    /\ emb' = [emb EXCEPT
                 !.X = MeanRows(emb.X_embedding_all, emb.embedding_table.shape[2]),
                 !.pc = "done"]
    /\ UNCHANGED notEmb

NextEmb == EmbAll \/ EmbMean

InitEmb == EmbEntry /\ IdleFeat /\ IdlePt /\ IdlePtm /\ IdleNews /\ IdleCfm /\ IdleNb

SpecEmb == InitEmb /\ [][NextEmb]_vars


(***************************************************************************)
(* Properties of the embedding matrices, checked under SpecEmb             *)
(***************************************************************************)
RECURSIVE SumOver(_, _, _, _, _)
\* the sum, over the words g of gs, of (occurrences of g in p) times
\* column j of the embedding vector of g
SumOver(gs, p, vocab, embedding_table, j) ==
    IF gs = {} THEN 0
    ELSE LET g == CHOOSE g \in gs : TRUE IN
         Occurrences(p, g) * embedding_table.data[<<vocab[g], j>>]
           + SumOver(gs \ {g}, p, vocab, embedding_table, j)

\* the number of in-vocabulary word occurrences of p
InVocabCount(p, vocab) == Cardinality({k \in 1..Len(p) : p[k] \in DOMAIN vocab})

\* x is the quotient total / n
IsQuotient(x, total, n) == n # 0 /\ x[2] # 0 /\ x[1] * n = total * x[2]

EmbShapeOk ==
    /\ emb.X.shape = <<Len(emb.posts), emb.embedding_table.shape[2]>>
    /\ DOMAIN emb.X.data =
          (0..(Len(emb.posts) - 1)) \X (0..(emb.embedding_table.shape[2] - 1))

\* C7 as stated: one row per post, in post order, and row i is the
\* column-wise mean of the embedding vectors of the in-vocabulary unigram
\* occurrences of post i, every occurrence counted.
C7_Original ==
    emb.pc = "done" =>
        /\ EmbShapeOk
        /\ \A i \in 1..Len(emb.posts) : \A j \in 0..(emb.embedding_table.shape[2] - 1) :
              IsQuotient(emb.X.data[<<i - 1, j>>],
                         SumOver(DOMAIN emb.vocab, emb.posts[i], emb.vocab,
                                 emb.embedding_table, j),
                         InVocabCount(emb.posts[i], emb.vocab))

\* C7 as amended: one row per post, in post order; row i is that mean when
\* post i has an in-vocabulary unigram occurrence, and a row of zeros when it
\* has none.
C7_MeanEmbeddingRows ==
    emb.pc = "done" =>
        /\ EmbShapeOk
        /\ \A i \in 1..Len(emb.posts) : \A j \in 0..(emb.embedding_table.shape[2] - 1) :
              IF InVocabCount(emb.posts[i], emb.vocab) > 0
              THEN IsQuotient(emb.X.data[<<i - 1, j>>],
                              SumOver(DOMAIN emb.vocab, emb.posts[i], emb.vocab,
                                      emb.embedding_table, j),
                              InVocabCount(emb.posts[i], emb.vocab))
              ELSE emb.X.data[<<i - 1, j>>] = <<0, 1>>

\* a finished call on two posts: the first holds one word of the vocabulary
\* twice and another once, and its mean is no whole number; the second holds
\* no word of the vocabulary and has a row of zeros
C7_Witness ==
    /\ emb.pc = "done"
    /\ Len(emb.posts) = 2
    /\ \E g, h \in DOMAIN emb.vocab :
          /\ g # h
          /\ Occurrences(emb.posts[1], g) = 2
          /\ Occurrences(emb.posts[1], h) = 1
    /\ emb.X.data[<<0, 0>>][2] = 3
    /\ InVocabCount(emb.posts[2], emb.vocab) = 0
    /\ \A j \in 0..(emb.embedding_table.shape[2] - 1) : emb.X.data[<<1, j>>] = <<0, 1>>

\* row r of matrix M is row v of the embedding table
IsTableRow(M, r, embedding_table, v) ==
    \A j \in 0..(embedding_table.shape[2] - 1) :
        M.data[<<r, j>>] = embedding_table.data[<<v, j>>]

\* C9 as stated: the list holds one matrix per post, and the matrix of a post
\* has one row per word occurrence of the post, in post order, each the
\* embedding vector of that word.
C9_Original ==
    emb.pc \in {"mean", "done"} =>
        /\ Len(emb.X_embedding_all) = Len(emb.posts)
        /\ \A i \in 1..Len(emb.posts) :
              /\ emb.X_embedding_all[i].shape[1] = Len(emb.posts[i])
              /\ \A r \in 1..Len(emb.posts[i]) :
                    /\ emb.posts[i][r] \in DOMAIN emb.vocab
                    /\ IsTableRow(emb.X_embedding_all[i], r - 1, emb.embedding_table,
                                  emb.vocab[emb.posts[i][r]])

\* C9 as amended: the list holds one matrix per post; the matrix of a post
\* has one row per occurrence of a word of the vocabulary, in post order, each
\* the embedding vector of that word (words outside the vocabulary give no
\* row), and it is a single row of zeros when the post holds no such word.
C9_EmbeddingRowsOfPost ==
    emb.pc \in {"mean", "done"} =>
        /\ Len(emb.X_embedding_all) = Len(emb.posts)
        /\ \A i \in 1..Len(emb.posts) :
              LET p == emb.posts[i]
                  M == emb.X_embedding_all[i]
                  at == {r \in 1..Len(p) : p[r] \in DOMAIN emb.vocab} IN
              /\ M.shape[2] = emb.embedding_table.shape[2]
              /\ DOMAIN M.data = (0..(M.shape[1] - 1)) \X (0..(M.shape[2] - 1))
              /\ IF at = {}
                 THEN /\ M.shape[1] = 1
                      /\ \A j \in 0..(M.shape[2] - 1) : M.data[<<0, j>>] = 0
                 ELSE /\ M.shape[1] = Cardinality(at)
                      /\ \A r \in at :
                            \* r is the k-th position of at
                            LET k == Cardinality({q \in at : q <= r}) IN
                            IsTableRow(M, k - 1, emb.embedding_table, emb.vocab[p[r]])

\* the list is built: a post of two words, the first outside the vocabulary,
\* has a matrix of one row; a post of one word outside the vocabulary has a
\* matrix of one row of zeros
C9_Witness ==
    /\ emb.pc = "mean"
    /\ Len(emb.posts) = 2
    /\ Len(emb.posts[1]) = 2
    /\ emb.posts[1][1] \notin DOMAIN emb.vocab
    /\ emb.posts[1][2] \in DOMAIN emb.vocab
    /\ emb.X_embedding_all[1].shape[1] = 1
    /\ emb.X_embedding_all[1].data[<<0, 0>>] # 0
    /\ Len(emb.posts[2]) = 1
    /\ emb.posts[2][1] \notin DOMAIN emb.vocab
    /\ emb.X_embedding_all[2] = zeros(1, emb.embedding_table.shape[2])


(***************************************************************************)
(* get_newsgroups, get_newsgroups_parsed                                   *)
(***************************************************************************)
\* CATEGORIES has four entries; raw.target holds their indices
NumCategories == 4

\* the parsed posts spaCy returns
Doc1 == <<<<tCat, tRan>>>>
Doc2 == <<<<tBob>>, <<tThe, tCat>>>>
Doc3 == <<<<tNum>>>>
Docs == {Doc1, Doc2, Doc3}

\* the text of a parsed post: the strings of its tokens, one after the other
RECURSIVE JoinStrings(_)
JoinStrings(tokens) ==
    IF tokens = <<>> THEN <<>> ELSE Head(tokens).string \o JoinStrings(Tail(tokens))

DocText(doc) == JoinStrings(Flatten(doc))

\* the raw posts of the dataset
RawTexts == {DocText(d) : d \in Docs}

\* nlp(text): the parsed post whose text is the raw post
nlp(text) == CHOOSE d \in Docs : DocText(d) = text

\* fetch_20newsgroups(...): the posts of the subset with their categories,
\* as raw.data and raw.target
Datasets ==
    UNION {[1..k -> [text : RawTexts, category : 0..(NumCategories - 1)]] : k \in 0..MaxRaw}

fetch_data(dataset) == [k \in 1..Len(dataset) |-> dataset[k].text]
fetch_target(dataset) == [k \in 1..Len(dataset) |-> dataset[k].category]

\* seq[:n] for n >= 0
Upto(seq, n) == SubSeq(seq, 1, IF n < Len(seq) THEN n ELSE Len(seq))

\* the argument n: <<>> is None, <<k>> is the number k
\* n = n or len(raw.data)
NOrLen(n, data) == IF n = <<>> \/ n = <<0>> THEN Len(data) ELSE n[1]

\* variant: the labels are returned whole
get_newsgroups_labels_whole(dataset, n) ==
    <<Upto(fetch_data(dataset), NOrLen(n, fetch_data(dataset))), fetch_target(dataset)>>

\* get_newsgroups: (raw.data[:n], raw.target[:n])
get_newsgroups(dataset, n) ==
    <<Upto(fetch_data(dataset), NOrLen(n, fetch_data(dataset))),
      Upto(fetch_target(dataset), NOrLen(n, fetch_data(dataset)))>>

\* [nlp(text) for text in raw]
ParseAll(raw) == [k \in 1..Len(raw) |-> nlp(raw[k])]

get_newsgroups_parsed(dataset, n) ==
    LET got == get_newsgroups(dataset, n) IN <<ParseAll(got[1]), got[2]>>

NewsEntry ==
    news \in {[dataset |-> ds, n |-> n, raw |-> <<>>, y |-> <<>>, parsed |-> <<>>,
               pc |-> "call"] :
                 ds \in Datasets, n \in {<<>>} \cup {<<k>> : k \in 0..(MaxRaw + 1)}}

\* raw, y = get_newsgroups(subset, remove, categories, n)
NewsGet ==
    /\ news.pc = "call"
    /\ LET got == get_newsgroups(news.dataset, news.n) IN
       news' = [news EXCEPT !.raw = got[1], !.y = got[2], !.pc = "got"]
    /\ UNCHANGED notNews

\* return [nlp(text) for text in raw], y
NewsParse ==
    /\ news.pc = "got"
    /\ news' = [news EXCEPT !.parsed = ParseAll(news.raw), !.pc = "done"]
    /\ UNCHANGED notNews

NextNews == NewsGet \/ NewsParse

InitNews == NewsEntry /\ IdleFeat /\ IdlePt /\ IdlePtm /\ IdleEmb /\ IdleCfm /\ IdleNb

SpecNews == InitNews /\ [][NextNews]_vars

\* C10: for n from 1 to the number of posts fetched, get_newsgroups returns
\* n posts and n labels, the first n fetched, label i the category of post i;
\* get_newsgroups_parsed returns as many parsed posts in the same order, post
\* i parsed from raw post i (it has the text of raw post i), and the same
\* labels.
C10_FirstNPostsAndLabels ==
    (/\ news.pc \in {"got", "done"}
     /\ news.n # <<>>
     /\ news.n[1] >= 1 /\ news.n[1] <= Len(news.dataset))
    =>
        LET n == news.n[1] IN
        /\ Len(news.raw) = n /\ Len(news.y) = n
        /\ \A i \in 1..n :
              /\ news.raw[i] = news.dataset[i].text
              /\ news.y[i] = news.dataset[i].category
        /\ news.pc = "done" =>
              /\ Len(news.parsed) = n
              /\ \A i \in 1..n :
                    /\ news.parsed[i] \in Docs
                    /\ DocText(news.parsed[i]) = news.dataset[i].text

\* a finished call with n = 1 on a dataset of two different posts with
\* different categories
C10_Witness ==
    /\ news.pc = "done"
    /\ news.n = <<1>>
    /\ Len(news.dataset) = 2
    /\ news.dataset[1].text # news.dataset[2].text
    /\ news.dataset[1].category # news.dataset[2].category
    /\ Len(news.parsed) = 1 /\ news.y = <<news.dataset[1].category>>


(***************************************************************************)
(* featurize_all_posts, construct_feature_matrix                           *)
(***************************************************************************)
\* zip(*[featurize_post(post) for post in posts]): the unigram lists of the
\* posts, and their bigram lists; zip() of no post yields nothing
featurize_all_posts(posts) ==
    IF posts = <<>> THEN <<>>
    ELSE <<[k \in 1..Len(posts) |-> featurize_post(posts[k])[1]],
           [k \in 1..Len(posts) |-> featurize_post(posts[k])[2]]>>

\* variant: the second matrix comes first
hstack_swapped(A, B) ==
    [shape |-> <<A.shape[1], A.shape[2] + B.shape[2]>>,
     data  |-> [c \in (0..(A.shape[1] - 1)) \X (0..(A.shape[2] + B.shape[2] - 1)) |->
                  IF c[2] < B.shape[2] THEN B.data[c]
                  ELSE A.data[<<c[1], c[2] - B.shape[2]>>]]]

\* np.hstack((A, B))
hstack(A, B) ==
    [shape |-> <<A.shape[1], A.shape[2] + B.shape[2]>>,
     data  |-> [c \in (0..(A.shape[1] - 1)) \X (0..(A.shape[2] + B.shape[2] - 1)) |->
                  IF c[2] < A.shape[2] THEN A.data[c]
                  ELSE B.data[<<c[1], c[2] - A.shape[2]>>]]]

construct_feature_matrix(unigram_lists, bigram_lists, unigram_vocab, bigram_vocab) ==
    LET X_unigram == posts_to_matrix(unigram_lists, unigram_vocab)
        X_bigram  == posts_to_matrix(bigram_lists, bigram_vocab)
    IN  hstack(X_unigram, X_bigram)

(***************************************************************************)
(* One call of construct_feature_matrix                                    *)
(***************************************************************************)
\* most n-grams handed to one call, unigrams and bigrams of all posts together
MaxCfmGrams == 3

\* the unigrams and the bigrams the posts of a call are made of
CfmUnigrams == {gCat, gRun}
CfmBigrams == {<<gCat, gRun>>, <<gRun, gCat>>}

\* the lists of n posts that hold at most b n-grams of G together
RECURSIVE ListsOver(_, _, _)
ListsOver(G, n, b) ==
    IF n = 0 THEN {<<>>}
    ELSE UNION {{<<p>> \o rest : p \in [1..k -> G], rest \in ListsOver(G, n - 1, b - k)} :
                  k \in 0..b}

CfmLists(G) == UNION {ListsOver(G, n, MaxCfmGrams) : n \in 0..MaxPosts}

\* the vocabularies over the n-grams of G
VocabsOver(G) ==
    {Enumerate(l) :
        l \in {l \in UNION {[1..k -> G] : k \in 0..Cardinality(G)} :
                 \A a, b \in 1..Len(l) : a # b => l[a] # l[b]}}

\* the number of n-grams in the lists
RECURSIVE TotalGrams(_)
TotalGrams(lists) ==
    IF lists = <<>> THEN 0 ELSE Len(Head(lists)) + TotalGrams(Tail(lists))

\* the unigram lists and the bigram lists of a call, equally long or not
CfmInputs ==
    {in \in CfmLists(CfmUnigrams) \X CfmLists(CfmBigrams) :
        TotalGrams(in[1]) + TotalGrams(in[2]) <= MaxCfmGrams}

CfmEntry ==
    cfm \in {[unigrams |-> in[1], bigrams |-> in[2],
              unigram_vocab |-> uv, bigram_vocab |-> bv,
              X |-> NoMatrix, pc |-> "call"] :
                in \in CfmInputs,
                uv \in VocabsOver(CfmUnigrams), bv \in VocabsOver(CfmBigrams)}

\* construct_feature_matrix(unigrams, bigrams, unigram_vocab, bigram_vocab)
\* runs and returns; np.hstack raises ValueError when X_unigram and X_bigram
\* differ in their number of rows
CfmCall ==
    /\ cfm.pc = "call"
    /\ cfm' = IF Len(cfm.unigrams) = Len(cfm.bigrams)
              THEN [cfm EXCEPT !.X = construct_feature_matrix(cfm.unigrams, cfm.bigrams,
                                                               cfm.unigram_vocab,
                                                               cfm.bigram_vocab),
                               !.pc = "done"]
              ELSE [cfm EXCEPT !.pc = "raised"]
    /\ UNCHANGED notCfm

NextCfm == CfmCall

InitCfm == CfmEntry /\ IdleFeat /\ IdlePt /\ IdlePtm /\ IdleEmb /\ IdleNews /\ IdleNb

SpecCfm == InitCfm /\ [][NextCfm]_vars

\* C11: after construct_feature_matrix has returned for equally long lists
\* of per-post unigrams and bigrams, the matrix has len(posts) rows and
\* len(unigram_vocab) + len(bigram_vocab) columns; in row i, column
\* unigram_vocab[g] counts the unigram g in the unigrams of post i, and
\* column len(unigram_vocab) + bigram_vocab[g] counts the bigram g in the
\* bigrams of the same post i; the call returns whenever the lists are
\* equally long.
C11_SideBySide ==
    (cfm.pc \in {"done", "raised"} /\ Len(cfm.unigrams) = Len(cfm.bigrams))
    =>
        LET n  == Len(cfm.unigrams)
            nu == Cardinality(DOMAIN cfm.unigram_vocab)
            nb2 == Cardinality(DOMAIN cfm.bigram_vocab) IN
        /\ cfm.pc = "done"
        /\ cfm.X.shape = <<n, nu + nb2>>
        /\ {cfm.unigram_vocab[g] : g \in DOMAIN cfm.unigram_vocab} = 0..(nu - 1)
        /\ {nu + cfm.bigram_vocab[g] : g \in DOMAIN cfm.bigram_vocab} = nu..(nu + nb2 - 1)
        /\ \A i \in 1..n :
              /\ \A g \in DOMAIN cfm.unigram_vocab :
                    cfm.X.data[<<i - 1, cfm.unigram_vocab[g]>>]
                        = Occurrences(cfm.unigrams[i], g)
              /\ \A g \in DOMAIN cfm.bigram_vocab :
                    cfm.X.data[<<i - 1, nu + cfm.bigram_vocab[g]>>]
                        = Occurrences(cfm.bigrams[i], g)

\* a returned call on two posts, with two unigrams and one bigram in the
\* vocabularies; the first post holds a unigram twice and no bigram, the
\* second holds the bigram and no unigram
C11_Witness ==
    /\ cfm.pc = "done"
    /\ cfm.X.shape = <<2, 3>>
    /\ Cardinality(DOMAIN cfm.unigram_vocab) = 2
    /\ \E g \in DOMAIN cfm.unigram_vocab : cfm.unigrams[1] = <<g, g>>
    /\ cfm.bigrams[1] = <<>> /\ cfm.unigrams[2] = <<>>
    /\ \E g \in DOMAIN cfm.bigram_vocab : cfm.bigrams[2] = <<g>>
    /\ \E c \in 0..1 : cfm.X.data[<<0, c>>] = 2
    /\ cfm.X.data[<<1, 2>>] = 1

(***************************************************************************)
(* The notebook, run from the first cell to the last                       *)
(***************************************************************************)
\* the labelled posts the subsets are drawn from
LabelledPosts ==
    {[text |-> DocText(Doc1), category |-> 1],
     [text |-> DocText(Doc2), category |-> 0],
     [text |-> DocText(Doc3), category |-> 3]}

\* the n-grams of every post, each once
GramSet(lists) == UNION {{lists[k][m] : m \in 1..Len(lists[k])} : k \in 1..Len(lists)}

\* list(set(...)) may put the n-grams in any order
Orderings(S) ==
    {l \in [1..Cardinality(S) -> S] : \A a, b \in 1..Cardinality(S) : a # b => l[a] # l[b]}

\* LogisticRegression(**model_kwargs).fit(X, y): the estimator, known by
\* the data it was fitted on
fit(X, y) == [fitted |-> TRUE, X |-> X, y |-> y]
Unfitted == [fitted |-> FALSE, X |-> NoMatrix, y |-> <<>>]

\* F.score(X, y): the accuracy, known by the estimator and the data scored
score(F, X, y) == [scored |-> TRUE, F |-> F, X |-> X, y |-> y]
NoScore == [scored |-> FALSE, F |-> Unfitted, X |-> NoMatrix, y |-> <<>>]

\* the cell after the last one, and the stop of a run at an exception
Finished == 24
Raised == 0

NbEntry ==
    /\ corpus \in {[train |-> tr, test |-> te] :
                     tr \in UNION {[1..k -> LabelledPosts] : k \in 1..MaxTrain},
                     te \in UNION {[1..k -> LabelledPosts] : k \in 1..MaxTest}}
    /\ nb = [cell |-> 1,
             train_raw |-> <<>>, train_y |-> <<>>, train_parsed |-> <<>>,
             train_unigrams |-> <<>>, train_bigrams |-> <<>>,
             all_unigrams |-> <<>>, all_bigrams |-> <<>>,
             unigram_vocab |-> <<>>, bigram_vocab |-> <<>>,
             train_X |-> NoMatrix, U |-> NoMatrix, train_X_embedding |-> NoMatrix,
             F_bow |-> Unfitted, F_embedding |-> Unfitted,
             bow_acc |-> NoScore, embedding_acc |-> NoScore,
             test_parsed |-> <<>>, test_y |-> <<>>,
             test_unigrams |-> <<>>, test_bigrams |-> <<>>,
             test_X |-> NoMatrix, test_X_embedding |-> NoMatrix,
             bow_test_acc |-> NoScore, embedding_test_acc |-> NoScore]

\* In [1]: train_raw, train_y = get_newsgroups('train', n=500)
Cell1 ==
    /\ nb.cell = 1
    /\ LET got == get_newsgroups(corpus.train, <<TrainN>>) IN
       nb' = [nb EXCEPT !.train_raw = got[1], !.train_y = got[2], !.cell = 4]
    /\ UNCHANGED <<corpus, notNb>>

\* In [4]: train_parsed, train_y = get_newsgroups_parsed('train', n=500)
Cell4 ==
    /\ nb.cell = 4
    /\ LET got == get_newsgroups_parsed(corpus.train, <<TrainN>>) IN
       nb' = [nb EXCEPT !.train_parsed = got[1], !.train_y = got[2], !.cell = 7]
    /\ UNCHANGED <<corpus, notNb>>

\* In [7]: train_unigrams, train_bigrams = featurize_all_posts(train_parsed);
\* the unpacking raises ValueError unless zip yields two lists
Cell7 ==
    /\ nb.cell = 7
    /\ LET got == featurize_all_posts(nb.train_parsed) IN
       nb' = IF Len(got) # 2
             THEN [nb EXCEPT !.cell = Raised]
             ELSE [nb EXCEPT !.train_unigrams = got[1], !.train_bigrams = got[2],
                             !.cell = 8]
    /\ UNCHANGED <<corpus, notNb>>

\* In [8]: all_unigrams = list(set(...)); all_bigrams = list(set(...))
Cell8 ==
    /\ nb.cell = 8
    /\ \E us \in Orderings(GramSet(nb.train_unigrams)),
          bs \in Orderings(GramSet(nb.train_bigrams)) :
          nb' = [nb EXCEPT !.all_unigrams = us, !.all_bigrams = bs, !.cell = 12]
    /\ UNCHANGED <<corpus, notNb>>

\* In [12]: unigram_vocab, bigram_vocab; train_X = construct_feature_matrix(...)
Cell12 ==
    /\ nb.cell = 12
    /\ LET uv == Enumerate(nb.all_unigrams)
           bv == Enumerate(nb.all_bigrams) IN
       nb' = [nb EXCEPT !.unigram_vocab = uv, !.bigram_vocab = bv,
                        !.train_X = construct_feature_matrix(nb.train_unigrams, nb.train_bigrams,
                                                            uv, bv),
                        !.cell = 14]
    /\ UNCHANGED <<corpus, notNb>>

\* In [14]: U = np.vstack([nlp(word).vector for word in all_unigrams]);
\* np.vstack raises ValueError on an empty list
Cell14 ==
    /\ nb.cell = 14
    /\ nb' = IF nb.all_unigrams = <<>>
             THEN [nb EXCEPT !.cell = Raised]
             ELSE [nb EXCEPT !.U = EmbeddingTable(nb.all_unigrams), !.cell = 16]
    /\ UNCHANGED <<corpus, notNb>>

\* In [16]: train_X_embedding = construct_feature_matrix_embedding(...)
Cell16 ==
    /\ nb.cell = 16
    /\ nb' = [nb EXCEPT
                !.train_X_embedding =
                    construct_feature_matrix_embedding(nb.train_unigrams,
                                                       nb.unigram_vocab, nb.U),
                !.cell = 19]
    /\ UNCHANGED <<corpus, notNb>>

\* the labels hold two classes or more; fit raises ValueError otherwise
TwoClasses(y) == \E a, b \in 1..Len(y) : y[a] # y[b]

\* In [19]: F_bow = LogisticRegression(**model_kwargs); F_bow.fit(train_X, train_y)
Cell19 ==
    /\ nb.cell = 19
    /\ nb' = IF TwoClasses(nb.train_y)
             THEN [nb EXCEPT !.F_bow = fit(nb.train_X, nb.train_y), !.cell = 20]
             ELSE [nb EXCEPT !.cell = Raised]
    /\ UNCHANGED <<corpus, notNb>>

\* variant: the cell makes F_embedding and does not fit it
Cell20_no_fit ==
    /\ nb.cell = 20
    /\ nb' = [nb EXCEPT !.cell = 21]
    /\ UNCHANGED <<corpus, notNb>>

\* In [20]: F_embedding = ...; F_embedding.fit(train_X_embedding, train_y)
Cell20 ==
    /\ nb.cell = 20
    /\ nb' = [nb EXCEPT !.F_embedding = fit(nb.train_X_embedding, nb.train_y),
                        !.cell = 21]
    /\ UNCHANGED <<corpus, notNb>>

\* In [21]: bow_acc = F_bow.score(train_X, train_y); embedding_acc = ...
Cell21 ==
    /\ nb.cell = 21
    /\ nb' = [nb EXCEPT
                !.bow_acc = score(nb.F_bow, nb.train_X, nb.train_y),
                !.embedding_acc = score(nb.F_embedding, nb.train_X_embedding, nb.train_y),
                !.cell = 22]
    /\ UNCHANGED <<corpus, notNb>>

\* variant: the vocabularies are built again, from the n-grams of the test
\* posts, before the test matrices
Cell22_refits_vocab ==
    /\ nb.cell = 22
    /\ LET got   == get_newsgroups_parsed(corpus.test, <<>>)
           grams == featurize_all_posts(got[1])
           uv    == Enumerate(CHOOSE l \in Orderings(GramSet(grams[1])) : TRUE)
           bv    == Enumerate(CHOOSE l \in Orderings(GramSet(grams[2])) : TRUE) IN
       nb' = [nb EXCEPT
                !.test_parsed = got[1], !.test_y = got[2],
                !.test_unigrams = grams[1], !.test_bigrams = grams[2],
                !.unigram_vocab = uv, !.bigram_vocab = bv,
                !.test_X = construct_feature_matrix(grams[1], grams[2], uv, bv),
                !.test_X_embedding =
                    construct_feature_matrix_embedding(grams[1], nb.unigram_vocab, nb.U),
                !.cell = 23]
    /\ UNCHANGED <<corpus, notNb>>

\* In [22]: test_parsed, test_y; test_unigrams, test_bigrams; test_X;
\* test_X_embedding; the unpacking of featurize_all_posts raises ValueError
\* unless zip yields two lists, after test_parsed and test_y are assigned
Cell22 ==
    /\ nb.cell = 22
    /\ LET got   == get_newsgroups_parsed(corpus.test, <<>>)
           grams == featurize_all_posts(got[1]) IN
       nb' = IF Len(grams) # 2
             THEN [nb EXCEPT !.test_parsed = got[1], !.test_y = got[2],
                             !.cell = Raised]
             ELSE [nb EXCEPT
                     !.test_parsed = got[1], !.test_y = got[2],
                     !.test_unigrams = grams[1], !.test_bigrams = grams[2],
                     !.test_X = construct_feature_matrix(grams[1], grams[2],
                                                        nb.unigram_vocab, nb.bigram_vocab),
                     !.test_X_embedding =
                         construct_feature_matrix_embedding(grams[1], nb.unigram_vocab,
                                                            nb.U),
                     !.cell = 23]
    /\ UNCHANGED <<corpus, notNb>>

\* In [23]: bow_test_acc = F_bow.score(test_X, test_y); embedding_test_acc = ...
Cell23 ==
    /\ nb.cell = 23
    /\ nb' = [nb EXCEPT
                !.bow_test_acc = score(nb.F_bow, nb.test_X, nb.test_y),
                !.embedding_test_acc =
                    score(nb.F_embedding, nb.test_X_embedding, nb.test_y),
                !.cell = Finished]
    /\ UNCHANGED <<corpus, notNb>>

NextNb ==
    \/ Cell1 \/ Cell4 \/ Cell7 \/ Cell8 \/ Cell12 \/ Cell14 \/ Cell16
    \/ Cell19 \/ Cell20 \/ Cell21 \/ Cell22 \/ Cell23

InitNb == NbEntry /\ IdleFeat /\ IdlePt /\ IdlePtm /\ IdleEmb /\ IdleNews /\ IdleCfm

SpecNb == InitNb /\ [][NextNb]_vars


(***************************************************************************)
(* Properties of a run of the notebook, checked under SpecNb               *)
(***************************************************************************)
\* column vocab[g] + offset of X counts g in every post of lists
ColumnsCount(X, lists, vocab, offset) ==
    \A g \in DOMAIN vocab : \A i \in 1..Len(lists) :
        X.data[<<i - 1, vocab[g] + offset>>] = Occurrences(lists[i], g)

\* train_X and test_X have the same columns: the unigrams at their indices
\* in unigram_vocab, then the bigrams at their indices in bigram_vocab
SameColumns ==
    /\ nb.test_X.shape[2] = nb.train_X.shape[2]
    /\ nb.train_X.shape[2] =
          Cardinality(DOMAIN nb.unigram_vocab) + Cardinality(DOMAIN nb.bigram_vocab)
    /\ ColumnsCount(nb.train_X, nb.train_unigrams, nb.unigram_vocab, 0)
    /\ ColumnsCount(nb.test_X, nb.test_unigrams, nb.unigram_vocab, 0)
    /\ ColumnsCount(nb.train_X, nb.train_bigrams, nb.bigram_vocab,
                    Cardinality(DOMAIN nb.unigram_vocab))
    /\ ColumnsCount(nb.test_X, nb.test_bigrams, nb.bigram_vocab,
                    Cardinality(DOMAIN nb.unigram_vocab))

\* C8: the cell that builds the test matrices leaves unigram_vocab,
\* bigram_vocab and U as the training cells built them, and after it test_X
\* has as many columns as train_X, column j counting the same n-gram in both.
C8_VocabularyFixed ==
    [][nb.cell = 22 =>
         /\ nb'.unigram_vocab = nb.unigram_vocab
         /\ nb'.bigram_vocab = nb.bigram_vocab
         /\ nb'.U = nb.U
         /\ nb.unigram_vocab = Enumerate(nb.all_unigrams)
         /\ nb.bigram_vocab = Enumerate(nb.all_bigrams)
         /\ SameColumns']_vars

\* the test matrices are built; a test post holds a unigram and a bigram
\* that the training posts do not, and a unigram that they do
C8_Witness ==
    /\ nb.cell = 23
    /\ nb.train_X.shape[2] >= 3
    /\ \E i \in 1..Len(nb.test_unigrams) :
          /\ \E k \in 1..Len(nb.test_unigrams[i]) :
                nb.test_unigrams[i][k] \notin DOMAIN nb.unigram_vocab
          /\ \E k \in 1..Len(nb.test_unigrams[i]) :
                /\ nb.test_unigrams[i][k] \in DOMAIN nb.unigram_vocab
                /\ nb.test_X.data[<<i - 1, nb.unigram_vocab[nb.test_unigrams[i][k]]>>] = 1
          /\ \E k \in 1..Len(nb.test_bigrams[i]) :
                nb.test_bigrams[i][k] \notin DOMAIN nb.bigram_vocab

\* the stages of the pipeline, told by what the cells have assigned
TrainParsed     == nb.train_parsed # <<>>
TrainFeaturized == nb.train_unigrams # <<>>
TrainMatrix     == nb.train_X # NoMatrix
TrainEmbedding  == nb.train_X_embedding # NoMatrix
BothFitted      == nb.F_bow.fitted /\ nb.F_embedding.fitted
TestFetched     == nb.test_parsed # <<>>
TestFeaturized  == nb.test_unigrams # <<>>
TestMatrices    == nb.test_X # NoMatrix \/ nb.test_X_embedding # NoMatrix

\* the elements of a list
Elements(l) == {l[k] : k \in 1..Len(l)}

\* C12: in a run from the first cell to the last, a stage has happened only
\* if the stages before it have: parsed training posts before their
\* n-grams, the n-grams before the vocabularies, the vocabularies before the
\* training matrices, the training matrices before a fit, a fit of a model
\* before any score of that model, and both fits before the test posts are
\* fetched or featurized.  The vocabularies hold the n-grams of the training
\* posts only, both models are fitted on the training matrices and labels
\* only, and the test matrices and labels appear in test scores only.
C12_PipelineOrder ==
    /\ nb.cell >= 7 => TrainParsed
    /\ TrainFeaturized =>
          /\ TrainParsed
          /\ Len(nb.train_unigrams) = Len(nb.train_parsed)
          /\ Len(nb.train_bigrams) = Len(nb.train_parsed)
    /\ nb.cell >= 8 => TrainFeaturized
    /\ nb.cell = 8 =>
          <<nb.train_unigrams, nb.train_bigrams>> = featurize_all_posts(nb.train_parsed)
    /\ (nb.all_unigrams # <<>> \/ nb.all_bigrams # <<>>) => TrainFeaturized
    /\ Elements(nb.all_unigrams) \subseteq GramSet(nb.train_unigrams)
    /\ Elements(nb.all_bigrams) \subseteq GramSet(nb.train_bigrams)
    /\ nb.cell >= 12 =>
          /\ Elements(nb.all_unigrams) = GramSet(nb.train_unigrams)
          /\ Elements(nb.all_bigrams) = GramSet(nb.train_bigrams)
    /\ DOMAIN nb.unigram_vocab \subseteq GramSet(nb.train_unigrams)
    /\ DOMAIN nb.bigram_vocab \subseteq GramSet(nb.train_bigrams)
    /\ TrainMatrix =>
          /\ TrainFeaturized
          /\ nb.unigram_vocab = Enumerate(nb.all_unigrams)
          /\ nb.bigram_vocab = Enumerate(nb.all_bigrams)
          /\ nb.train_X.shape[1] = Len(nb.train_parsed)
    /\ nb.cell >= 14 => TrainMatrix
    /\ nb.U # NoMatrix => TrainMatrix
    /\ TrainEmbedding => TrainMatrix /\ nb.U # NoMatrix
    /\ nb.cell >= 19 => TrainEmbedding
    /\ nb.F_bow.fitted <=> nb.cell >= 20
    /\ nb.F_bow.fitted =>
          /\ TrainMatrix /\ TrainEmbedding
          /\ nb.F_bow = fit(nb.train_X, nb.train_y)
    /\ nb.F_embedding.fitted <=> nb.cell >= 21
    /\ nb.F_embedding.fitted =>
          /\ nb.F_bow.fitted
          /\ nb.F_embedding = fit(nb.train_X_embedding, nb.train_y)
    /\ nb.bow_acc.scored =>
          /\ nb.F_bow.fitted
          /\ nb.bow_acc = score(nb.F_bow, nb.train_X, nb.train_y)
    /\ nb.embedding_acc.scored =>
          /\ nb.F_embedding.fitted
          /\ nb.embedding_acc = score(nb.F_embedding, nb.train_X_embedding, nb.train_y)
    /\ (nb.bow_acc.scored \/ nb.embedding_acc.scored) <=> nb.cell >= 22
    /\ (TestFetched \/ TestFeaturized \/ TestMatrices \/ nb.test_y # <<>>) =>
          /\ BothFitted
          /\ nb.cell >= 23
    /\ nb.cell >= 23 => TestFetched /\ TestFeaturized /\ TestMatrices
    /\ nb.bow_test_acc.scored =>
          /\ nb.F_bow.fitted /\ TestMatrices
          /\ nb.bow_test_acc = score(nb.F_bow, nb.test_X, nb.test_y)
    /\ nb.embedding_test_acc.scored =>
          /\ nb.F_embedding.fitted /\ TestMatrices
          /\ nb.embedding_test_acc = score(nb.F_embedding, nb.test_X_embedding, nb.test_y)
    /\ (nb.bow_test_acc.scored \/ nb.embedding_test_acc.scored) <=> nb.cell = Finished

\* a run that reached the end: both models fitted and scored on both sets,
\* the test posts holding an n-gram that no training post holds
C12_Witness ==
    /\ nb.cell = Finished
    /\ BothFitted
    /\ nb.bow_acc.scored /\ nb.embedding_acc.scored
    /\ nb.bow_test_acc.scored /\ nb.embedding_test_acc.scored
    /\ nb.test_X # nb.train_X
    /\ GramSet(nb.test_unigrams) \ GramSet(nb.train_unigrams) # {}

=============================================================================
